---- MODULE Spec2Model ----
(***************************************************************************)
(* A model of add_gsw_correction_to_LI600 (src/Python/                     *)
(* add_gsw_correction_to_LI600.py): the ingestion of the CSV file, the     *)
(* per-row solve with its convergence check and zero fallback, the        *)
(* post-solve derivation, and the writing of the corrected table.         *)
(*                                                                         *)
(* Floating-point values are cells [k, v]: k is the kind ("num" a finite   *)
(* float64, "int" a finite int64, "nan", "inf", "str" a Python str) and v  *)
(* the magnitude in fixed point.  Units: temperatures 1/20 degC, gsw       *)
(* 1/400 mol/m2/s, relative humidity 1 %, sidedness 1/10, thermal          *)
(* conductance 1/1000 W/degC, sum of squared residuals 1e-11.              *)
(*                                                                         *)
(* scipy's fsolve is not code of the repository: its result is taken as    *)
(* an unknown but fixed function of what the code passes to it (the        *)
(* closure of `equations` and the initial guess), constrained only by what *)
(* `equations` itself forces: a str operand raises, a NaN operand makes    *)
(* every residual NaN.                                                     *)
(***************************************************************************)
EXTENDS Integers, Sequences, FiniteSets, TLC

VARIABLES
    file,       \* the lines of the CSV file at `filepath`
    config,     \* [sidedness, C]: the two keyword arguments of the call
    pc,         \* position in add_gsw_correction_to_LI600
    data,       \* the ingested DataFrame: [cols, rows]
    i,          \* the loop index of `for i in range(n)` (1-based here)
    cur,        \* the locals of the current iteration (lines 87-101)
    ret,        \* what the fsolve call of the current iteration did
    sol,        \* T_out_sol, E_sol, gsw_sol after the try/except
    arrays,     \* T_ins, T_chambs, T_outs, W_chambs, gsw_total, sidedness
    disk,       \* the lines of <name>_corrected<ext>, <<>> while not written
    returned,   \* the DataFrame returned to the caller, NoTable before
    raised,     \* the exception that left the function, "none" if none
    fsolveMemo, \* the part of fsolve's input/output function seen so far
    rowState,   \* per row: where it is in the life cycle of spec section 4.2
    solveCount, \* per row: how many times fsolve was called for it
    branch,     \* per row: what fsolve did and which branch was taken
    run,        \* the number of the current call
    prev        \* the previous completed call: [file, config, table, branch]

vars == <<file, config, pc, data, i, cur, ret, sol, arrays, disk, returned,
          raised, fsolveMemo, rowState, solveCount, branch, run, prev>>

\* ------------------------------------------------------------------ bounds
MaxRows == 2
MaxRuns == 2
\* the rows of the end-to-end scenario's file
ScenarioRows == 5

\* ------------------------------------------------------- program constants
\* 1e-10, the convergence threshold, in units of 1e-11
Tol == 10
\* 0.1 degC, the offset of the T_out guess, in units of 1/20 degC
TenthDeg == 2
\* 1.0 mol/m2/s in gsw units: where int64 truncation cuts
GswOne == 400
\* default stomatal_sidedness = 1, in tenths
DefaultSidedness == 10
\* default thermal_conductance = 0.007, in thousandths
DefaultC == 7

\* ------------------------------------------------------------------- cells
Num(v) == [k |-> "num", v |-> v]
IntLit(v) == [k |-> "int", v |-> v]
Str(v) == [k |-> "str", v |-> v]
NaN == [k |-> "nan", v |-> 0]
Inf == [k |-> "inf", v |-> 0]
\* a cell of text that is no number ("abc")
Txt == [k |-> "str", v |-> -1]

IsStr(c) == c.k = "str"
IsNaN(c) == c.k = "nan"
IsFinite(c) == c.k \in {"num", "int"}

\* float64 arithmetic on cells that are no str (the callers guard str)
FSub(a, d) == IF IsFinite(a) THEN Num(a.v - d) ELSE a
FAdd(a, b) ==
    IF IsNaN(a) \/ IsNaN(b) THEN NaN
    ELSE IF a.k = "inf" \/ b.k = "inf" THEN Inf
    ELSE Num(a.v + b.v)
\* 0.5 * a: every sum halved here is even in the unit used
FHalf(a) == IF IsFinite(a) THEN Num(a.v \div 2) ELSE a
\* a * 0.75
FThreeQuarters(a) == IF IsFinite(a) THEN Num((3 * a.v) \div 4) ELSE a
\* a * k where k is a sidedness in tenths; 0 * inf and nan * k are nan
FTimesTenths(a, k) ==
    IF IsNaN(a) THEN NaN
    ELSE IF a.k = "inf" THEN (IF k = 0 THEN NaN ELSE Inf)
    ELSE Num((a.v * k) \div 10)
\* Python's a > b on floats: False whenever a is NaN
FGreater(a, b) == a.k = "inf" \/ (IsFinite(a) /\ a.v > b)

\* ----------------------------------------------------------------- columns
Required == {"gsw", "Tref", "Tleaf", "rh_r", "rh_s", "flow", "P_atm"}
InputCols == Required \cup {"E_apparent"}
CorrectedCols == {"gsw_corrected", "T_in_corrected", "Ta_chamb_corrected",
                  "T_out_corrected", "W_chamb_corrected", "stomatal_sidedness"}

NoRow == [c \in {} |-> NaN]
NoTable == [cols |-> {}, rows |-> <<>>]

\* ------------------------------------------------------------- the CSV file
MetaLine == [kind |-> "meta", cols |-> {}, row |-> NoRow]
NamesLine(cols) == [kind |-> "names", cols |-> cols, row |-> NoRow]
DataLine(row) == [kind |-> "data", cols |-> {}, row |-> row]

DataLines(rows) == [j \in 1..Len(rows) |-> DataLine(rows[j])]

\* the three layouts the ingestion is written for
Li600File(cols, rows) == <<MetaLine, NamesLine(cols), MetaLine>> \o DataLines(rows)
PlainFile(cols, rows) == <<NamesLine(cols)>> \o DataLines(rows)
Pre2File(cols, rows) == <<MetaLine, MetaLine, NamesLine(cols)>> \o DataLines(rows)

RECURSIVE KeepFrom(_, _, _)
KeepFrom(lines, skip, j) ==
    IF j > Len(lines) THEN <<>>
    ELSE (IF (j - 1) \in skip THEN <<>> ELSE <<lines[j]>>)
         \o KeepFrom(lines, skip, j + 1)

\* one line under a header: a data line gives its cells by column (a short
\* line is padded with NaN), a line of text gives text in every column
ParseRow(cols, line) ==
    [c \in cols |->
        IF line.kind = "data"
        THEN (IF c \in DOMAIN line.row THEN line.row[c] ELSE NaN)
        ELSE Txt]

\* pandas' dtype of a column: object when a cell is text (every number of
\* the column is then a str), int64 when every cell is an integer literal,
\* float64 otherwise; a missing cell is the float NaN in each
InferCell(rows, c, j) ==
    LET cell == rows[j][c]
        object == \E m \in 1..Len(rows) : IsStr(rows[m][c])
        allInt == \A m \in 1..Len(rows) : rows[m][c].k = "int"
    IN IF object THEN (IF IsFinite(cell) THEN Str(cell.v) ELSE cell)
       ELSE IF cell.k = "int" /\ ~allInt THEN Num(cell.v)
       ELSE cell

\* pd.read_csv(filepath, skiprows=skip, header=0)
ReadCsv(lines, skip) ==
    LET kept == KeepFrom(lines, skip, 1)
    IN IF kept = <<>>
       THEN [err |-> "EmptyDataError", cols |-> {}, rows |-> <<>>]
       ELSE LET cols == kept[1].cols
                raw == [j \in 1..(Len(kept) - 1) |-> ParseRow(cols, kept[j + 1])]
            IN [err |-> "none", cols |-> cols,
                rows |-> [j \in 1..Len(raw) |->
                            [c \in cols |-> InferCell(raw, c, j)]]]

SkipGroupsAndUnits == {0, 2}
SkipFirstTwo == {0, 1}
SkipNothing == {}

\* lines 29-42: the three attempts.  The first try catches KeyError and
\* ParserError only; the second catches everything; the third is not in a
\* try at all.
ReadInput(lines) ==
    LET r1 == ReadCsv(lines, SkipGroupsAndUnits)
        r2 == ReadCsv(lines, SkipFirstTwo)
        r3 == ReadCsv(lines, SkipNothing)
    IN IF r1.err # "none" THEN [err |-> r1.err, table |-> NoTable]
       ELSE IF "gsw" \in r1.cols
            THEN [err |-> "none", table |-> [cols |-> r1.cols, rows |-> r1.rows]]
       ELSE IF r2.err = "none" /\ "gsw" \in r2.cols
            THEN [err |-> "none", table |-> [cols |-> r2.cols, rows |-> r2.rows]]
       ELSE IF r3.err # "none" THEN [err |-> r3.err, table |-> NoTable]
       ELSE IF "gsw" \notin r3.cols THEN [err |-> "KeyError", table |-> NoTable]
       ELSE [err |-> "none", table |-> [cols |-> r3.cols, rows |-> r3.rows]]

\* app.py lines 38-56: the ingestion of the GUI's copy of the function.
\* Each read_csv is in a bare try, none checks for 'gsw': the first layout
\* that parses is used, and data['gsw'] is first read at line 56.
ReadInputGui(lines) ==
    LET r1 == ReadCsv(lines, SkipGroupsAndUnits)
        r2 == ReadCsv(lines, SkipFirstTwo)
        r3 == ReadCsv(lines, SkipNothing)
        r == IF r1.err = "none" THEN r1 ELSE IF r2.err = "none" THEN r2 ELSE r3
    IN IF r.err # "none" THEN [err |-> r.err, table |-> NoTable]
       ELSE IF "gsw" \notin r.cols THEN [err |-> "KeyError", table |-> NoTable]
       ELSE [err |-> "none", table |-> [cols |-> r.cols, rows |-> r.rows]]

\* --------------------------------------------------- lines 44-52: the arrays
\* np.full(n, stomatal_sidedness) is int64 for a Python int, float64 for a
\* float; data['gsw'].values * sidedness is int64 only when both are
GswTotalIsInt(table, sidedness) ==
    /\ sidedness.kind = "int"
    /\ Len(table.rows) > 0
    /\ \A j \in 1..Len(table.rows) : table.rows[j]["gsw"].k = "int"

\* line 52 raises TypeError for a str times a float (a str times an int64
\* is Python's string repetition and raises nothing)
InitArraysError(table, sidedness) ==
    IF /\ sidedness.kind = "float"
       /\ \E j \in 1..Len(table.rows) : IsStr(table.rows[j]["gsw"])
    THEN "TypeError" ELSE "none"

InitArrays(table, sidedness) ==
    LET n == Len(table.rows)
    IN [sidedness |-> [j \in 1..n |-> sidedness.v],
        T_ins     |-> [j \in 1..n |-> Num(0)],
        T_chambs  |-> [j \in 1..n |-> Num(0)],
        T_outs    |-> [j \in 1..n |-> Num(0)],
        W_chambs  |-> [j \in 1..n |-> Num(0)],
        gsw_bottom |-> [j \in 1..n |-> Num(0)],
        gsw_total |-> [j \in 1..n |->
                        LET g == table.rows[j]["gsw"]
                        IN IF IsStr(g) THEN g
                           ELSE IF GswTotalIsInt(table, sidedness)
                                THEN IntLit((g.v * sidedness.v) \div 10)
                                ELSE FTimesTenths(g, sidedness.v)]]

\* ------------------------------------------- lines 87-101: one row's inputs
\* the first exception of lines 87-100, in the order Python evaluates them
RowInputsError(table, j) ==
    LET row == table.rows[j]
        missing(c) == c \notin table.cols
    IN IF missing("Tref") THEN "KeyError"
       ELSE IF missing("Tleaf") THEN "KeyError"
       ELSE IF missing("rh_r") THEN "KeyError"
       ELSE IF IsStr(row["rh_r"]) THEN "TypeError"
       ELSE IF missing("rh_s") THEN "KeyError"
       ELSE IF IsStr(row["rh_s"]) THEN "TypeError"
       ELSE IF missing("flow") THEN "KeyError"
       ELSE IF IsStr(row["flow"]) THEN "TypeError"
       ELSE IF missing("P_atm") THEN "KeyError"
       ELSE IF IsStr(row["Tref"]) THEN "TypeError"
       ELSE IF missing("E_apparent") THEN "KeyError"
       ELSE IF IsStr(row["gsw"]) THEN "TypeError"
       ELSE "none"

\* T_in, T_leaf, RH_in, RH_out, u_in, P_atm and initial_guesses; the
\* divisions by 100 and the product by 1e-6 only change the unit
RowInputs(table, j) ==
    LET row == table.rows[j]
    IN [T_in   |-> row["Tref"],
        T_leaf |-> row["Tleaf"],
        RH_in  |-> row["rh_r"],
        RH_out |-> row["rh_s"],
        u_in   |-> row["flow"],
        P_atm  |-> row["P_atm"],
        x0     |-> <<FSub(row["Tref"], TenthDeg),
                     row["E_apparent"],
                     FThreeQuarters(row["gsw"])>>]

NoInputs == [T_in |-> NaN, T_leaf |-> NaN, RH_in |-> NaN, RH_out |-> NaN,
             u_in |-> NaN, P_atm |-> NaN, x0 |-> <<NaN, NaN, NaN>>]

\* ------------------------------------------- lines 103-136: equations, fsolve
Zero3 == <<Num(0), Num(0), Num(0)>>
NaN3 == <<NaN, NaN, NaN>>

\* `equations` raises TypeError when it meets a str: T_leaf in es(T_leaf),
\* P_atm in W(...), or the E of a str initial guess in 0.5 * (T_in + T_out)
EquationsRaise(in) ==
    IsStr(in.T_leaf) \/ IsStr(in.P_atm) \/ IsStr(in.x0[2])

\* every residual is NaN at x when a closure value or a component of x is
\* NaN, and when P_atm is 0 (W_leaf - W_chamb and W_out - W_in are inf - inf)
InputsNaN(in) ==
    \/ \E c \in {in.T_in, in.T_leaf, in.RH_in, in.RH_out, in.u_in, in.P_atm} : IsNaN(c)
    \/ (IsFinite(in.P_atm) /\ in.P_atm.v = 0)
ResidualsNaN(in, x) ==
    InputsNaN(in) \/ \E m \in 1..3 : IsNaN(x[m])

\* info['fvec'].dot(info['fvec']) where the residuals are finite: below the
\* threshold, equal to it, above it
SsqValues == {Num(Tol - 1), Num(Tol), Num(Tol + 1)}

\* a point the iteration moved to from x: T_out one unit above
Moved(x) == <<FAdd(x[1], Num(1)), x[2], x[3]>>

\* ---- the root of `equations`, in fixed point
\* a quotient cut toward zero, for b > 0
Quot(a, b) == IF a >= 0 THEN a \div b ELSE 0 - ((0 - a) \div b)

\* lines 68-70, es(T) = a * exp(b * T / (T + c)) with a = 0.61365, b = 17.502,
\* c = 240.97: its values in Pa at -20, -15, ..., 60 degC
EsKnots ==
    <<126, 192, 288, 424, 614, 876, 1232, 1711, 2347, 3180, 4260, 5648, 7414,
      9639, 12419, 15864, 20101>>

\* es(T) in Pa for T in units of 1/20 degC, linear between the knots
es(T) ==
    LET t == T + 400
        k == IF t < 0 THEN 0 ELSE IF t >= 1600 THEN 15 ELSE t \div 100
    IN EsKnots[k + 1] + Quot((EsKnots[k + 2] - EsKnots[k + 1]) * (t - 100 * k), 100)

\* lines 72-74, W(T, RH, P_atm) = es(T) * RH / P_atm, in parts per million; RH2
\* is the relative humidity in units of 1/200 and P is in kPa
WValue(T, RH2, P) == (es(T) * RH2 * 5) \div P

\* eq2 (line 129) has one unknown:
\* E = s**(-1) * u_in * (W_out - W_in) * (1 - W_out)**(-1), in umol/m2/s;
\* u_in is flow * 1e-6 (line 95) and 1 / s is 22635.4 (line 64)
E_root(in) ==
    LET W_in == WValue(in.T_in.v, 2 * in.RH_in.v, in.P_atm.v)
        W_out == WValue(in.T_in.v, 2 * in.RH_out.v, in.P_atm.v)
    IN Quot(Quot(in.u_in.v * (W_out - W_in), 10) * 2264, (1000000 - W_out) \div 100)

\* eq3 (line 130) says Q = (s * E + u_in) * h_out - u_in * h_in; with
\* eq2's E and h of lines 80-82, h_out - h_in is
\* s * E * (lambdaw + cpw * T_in) / (u_in * (1 - W_in)), so Q = s * E * K
\* with K = h_out + (lambdaw + cpw * T_in) / (1 - W_in) in J/mol, where
\* h_out = cpa * T_in + Wd_out * (lambdaw + cpw * T_in), cpa = 29.14,
\* cpw = 33.5, lambdaw = 45502 (lines 60-62)
HeatPerMole(in) ==
    LET T == in.T_in.v
        W_in == WValue(T, 2 * in.RH_in.v, in.P_atm.v)
        W_out == WValue(T, 2 * in.RH_out.v, in.P_atm.v)
        L == 45502 + (67 * T) \div 40
    IN (L * 10000) \div ((1000000 - W_in) \div 100)
       + (2914 * T) \div 2000
       + (W_out * (L \div 10)) \div ((1000000 - W_out) \div 10)

\* the heat Q = s * E * K of a row with heat K per mole, in units of 1e-10 W * 20
\* (s = 0.441786e-4 m2, and 20 units of temperature per degC)
Q_root(E, K) == Quot(E * (K \div 100), 1000) * 884

\* a faulty variant: the conductance divides the temperature difference,
\* Q = (T_in - T_chamb) / C
OffsetAsResistance(q, C) == Quot(q * C, 490000)

\* line 122, Q = C * (T_in - T_chamb): the difference T_in - T_chamb that
\* carries the heat q, for C in units of 0.001 W/degC
ChamberOffset(q, C) == Quot(q, C * 10000)

\* a faulty variant: W_chamb is taken at the inlet temperature
ChamberAtInlet(T_in, dT) == T_in

\* T_chamb, dT below T_in
ChamberBelowInlet(T_in, dT) == T_in - dT

\* the unique root of eq1, eq2, eq3 for C > 0: T_chamb = T_in - Q / C and
\* T_chamb = 0.5 * (T_in + T_out) (line 108) give T_out; eq1 (line 128),
\* E = gtw * (W_leaf - W_chamb) with gtw = gsw * gbw / (gsw + gbw) (line 125) and
\* gbw = 2.921, gives gsw = E * gbw / (gbw * (W_leaf - W_chamb) - E).  E is
\* returned in mmol/m2/s and gsw in steps of 0.025 mol/m2/s.
RootParts(in, C) ==
    LET E == E_root(in)
        dT == ChamberOffset(Q_root(E, HeatPerMole(in)), C)
        grad == WValue(in.T_leaf.v, 200, in.P_atm.v)
                - WValue(ChamberBelowInlet(in.T_in.v, dT), in.RH_in.v + in.RH_out.v, in.P_atm.v)
        den == Quot(2921 * grad, 1000) - E
    IN [E |-> E, dT |-> dT, grad |-> grad, den |-> den]

Root(in, C) ==
    LET p == RootParts(in, C)
        num == Quot(11684 * p.E, 100)
        gsw == IF p.den > 0 THEN 10 * Quot(num, p.den)
               ELSE 0 - 10 * Quot(num, 0 - p.den)
    IN <<Num(in.T_in.v - 2 * p.dT), Num(Quot(p.E, 1000)), Num(gsw)>>

\* the points at which every residual is below the tolerance: the root when
\* C > 0 and the gradient and the denominator of gsw are not 0; with C = 0
\* no point when E # 0 (eq3 asks for Q # 0 and Q = 0), and when E = 0 any
\* T_out with E = gsw = 0: the guess's T_out, or a T_out the iteration
\* moved to
Solutions(in, C) ==
    LET p == RootParts(in, IF C > 0 THEN C ELSE 1)
        rest == <<in.x0[1], Num(0), Num(0)>>
    IN IF C > 0
       THEN (IF p.grad # 0 /\ p.den # 0 THEN {Root(in, C)} ELSE {})
       ELSE (IF p.E = 0 /\ p.grad # 0 THEN {rest, Moved(rest)} ELSE {})

\* the except clause is entered with T_out_sol, E_sol, gsw_sol unassigned
Raises == [raise |-> TRUE, x |-> NaN3, ssq |-> NaN]

\* the three residuals are exactly 0 at the initial guess: with E = 0 and
\* gsw = 0, gtw = 0 and eq1 = 0; with u_in = 0, eq2 = 0; with C = 0 and
\* u_in = 0, Q = 0 and eq3 = 0
ExactRootAtGuess(in, C) ==
    /\ ~InputsNaN(in)
    /\ \A m \in 1..3 : IsFinite(in.x0[m])
    /\ in.x0[2].v = 0 /\ in.x0[3].v = 0
    /\ in.u_in.v = 0
    /\ C = 0

\* what fsolve(equations, initial_guesses, full_output=True) may do with
\* these inputs and this thermal conductance C (the C of Q = C * (...)):
\* info['fvec'] is `equations` at the returned x, so a sum of squares
\* within the threshold comes with a solution, and one above it with a
\* point that is none (the guess, when the iteration made no progress); a
\* guess with zero residuals is returned as it is; NaN residuals give a
\* NaN sum
FsolveOutcomes(in, C) ==
    IF EquationsRaise(in) THEN {Raises}
    ELSE IF ExactRootAtGuess(in, C)
    THEN {[raise |-> FALSE, x |-> in.x0, ssq |-> Num(0)]}
    ELSE IF ResidualsNaN(in, in.x0)
    THEN [raise : {FALSE}, x : {in.x0, NaN3}, ssq : {NaN}]
    ELSE {o \in [raise : {FALSE}, x : Solutions(in, C) \cup {in.x0}, ssq : SsqValues] :
            FGreater(o.ssq, Tol) <=> o.x \notin Solutions(in, C)}

\* ------------------------------------------- lines 137-150: accept or fall back
\* `if ssq > 1e-10` inside the try, zeros in the bare except
FellBack(out) == out.raise \/ FGreater(out.ssq, Tol)

\* a faulty variant: the except clause assigns nothing
AcceptWithoutExcept(out) ==
    IF ~out.raise /\ FGreater(out.ssq, Tol) THEN Zero3 ELSE out.x

Accept(out) == IF FellBack(out) THEN Zero3 ELSE out.x

\* ------------------------------------------- lines 152-163: store the row
\* W(T, RH, P_atm) = es(T) * RH / P_atm, kept as the term it is evaluated at
\* (RH2 is rh_r + rh_s, the chamber RH in units of 1/200)
W(T, RH2, P) == [k |-> "W", v |-> 0, T |-> T, RH2 |-> RH2, P |-> P]

\* a float stored into an int64 array is cut toward zero
TruncInt(v) ==
    IF v >= 0 THEN (v \div GswOne) * GswOne ELSE 0 - (((0 - v) \div GswOne) * GswOne)

\* int(NaN) and int(inf) raise at line 154; W(..., P_atm) with a str P_atm
\* raises at line 163
StoreError(table, sidedness, in, s) ==
    IF GswTotalIsInt(table, sidedness) /\ ~IsFinite(FTimesTenths(s[3], sidedness.v))
    THEN "ValueError"
    ELSE IF IsStr(in.P_atm) THEN "TypeError"
    ELSE "none"

StoreAt(arr, j, table, sidedness, in, s) ==
    LET prod == FTimesTenths(s[3], arr.sidedness[j])
        T_chamb == FHalf(FAdd(in.T_in, s[1]))
    IN [arr EXCEPT
          !.gsw_bottom[j] = s[3],
          !.gsw_total[j] = IF GswTotalIsInt(table, sidedness)
                           THEN IntLit(TruncInt(prod.v)) ELSE prod,
          !.T_outs[j] = s[1],
          !.T_chambs[j] = T_chamb,
          !.T_ins[j] = FAdd(in.T_in, Num(0)),
          !.W_chambs[j] = W(T_chamb, FAdd(in.RH_in, in.RH_out), in.P_atm)]

\* a faulty variant: the results are stored from the end of the arrays
StoreRowMirrored(arr, j, table, sidedness, in, s) ==
    StoreAt(arr, Len(table.rows) + 1 - j, table, sidedness, in, s)

\* a faulty variant: the chamber values are derived from the leaf
\* temperature instead of Tref
StoreRowFromLeaf(arr, j, table, sidedness, in, s) ==
    StoreAt(arr, j, table, sidedness, [in EXCEPT !.T_in = in.T_leaf], s)

\* lines 153-163 with the loop's own index
StoreRow(arr, j, table, sidedness, in, s) ==
    StoreAt(arr, j, table, sidedness, in, s)

\* ------------------------------------------- lines 165-181: the output table
\* a faulty variant: the corrected conductance is written over gsw
AddColumnsOverGsw(table, arr, sidedness) ==
    [cols |-> table.cols \cup CorrectedCols,
     rows |-> [j \in 1..Len(table.rows) |->
        [c \in table.cols \cup CorrectedCols |->
            CASE c \in {"gsw", "gsw_corrected"} -> arr.gsw_total[j]
              [] c = "T_in_corrected"     -> arr.T_ins[j]
              [] c = "Ta_chamb_corrected" -> arr.T_chambs[j]
              [] c = "T_out_corrected"    -> arr.T_outs[j]
              [] c = "W_chamb_corrected"  -> arr.W_chambs[j]
              [] c = "stomatal_sidedness" -> Num(arr.sidedness[j])
              [] OTHER -> table.rows[j][c]]]]

AddColumns(table, arr, sidedness) ==
    [cols |-> table.cols \cup CorrectedCols,
     rows |-> [j \in 1..Len(table.rows) |->
        [c \in table.cols \cup CorrectedCols |->
            CASE c = "gsw_corrected"      -> arr.gsw_total[j]
              [] c = "T_in_corrected"     -> arr.T_ins[j]
              [] c = "Ta_chamb_corrected" -> arr.T_chambs[j]
              [] c = "T_out_corrected"    -> arr.T_outs[j]
              [] c = "W_chamb_corrected"  -> arr.W_chambs[j]
              [] c = "stomatal_sidedness" ->
                    (IF sidedness.kind = "int" THEN IntLit(arr.sidedness[j])
                     ELSE Num(arr.sidedness[j]))
              [] OTHER -> table.rows[j][c]]]]

\* a str that reads as a number is written as that number
WriteCell(c) == IF IsStr(c) /\ c.v >= 0 THEN Num(c.v) ELSE c

\* data.to_csv(output_filepath, index=False)
ToCsv(table) ==
    PlainFile(table.cols,
              [j \in 1..Len(table.rows) |->
                 [c \in table.cols |-> WriteCell(table.rows[j][c])]])

\* ------------------------------------------------------- the inputs drawn
\* the row of the spec's end-to-end scenario: Tref 25, Tleaf 25, rh_r 50,
\* rh_s 45, flow 400, P_atm 95, gsw 0.3
RowA == [gsw |-> Num(120), Tref |-> Num(500), Tleaf |-> Num(500),
         rh_r |-> Num(50), rh_s |-> Num(45), flow |-> Num(400),
         P_atm |-> Num(95), E_apparent |-> Num(3)]
\* another measurement: Tref 20, Tleaf 22, rh_r 40, rh_s 60, gsw 0.5
RowB == [gsw |-> Num(200), Tref |-> Num(400), Tleaf |-> Num(440),
         rh_r |-> Num(40), rh_s |-> Num(60), flow |-> Num(300),
         P_atm |-> Num(100), E_apparent |-> Num(5)]
\* a row whose gsw cell is the integer literal 1
RowI == [RowB EXCEPT !["gsw"] = IntLit(GswOne)]

\* a closed chamber at rest: no flow, no transpiration, no conductance, and
\* Tref 0.1 so that the initial guess is (0, 0, 0)
RowZ == [gsw |-> Num(0), Tref |-> Num(TenthDeg), Tleaf |-> Num(500),
         rh_r |-> Num(50), rh_s |-> Num(45), flow |-> Num(0),
         P_atm |-> Num(95), E_apparent |-> Num(0)]

\* RowB with the sample humidity equal to the reference humidity: no water
\* vapour is exchanged
RowE == [RowB EXCEPT !["rh_s"] = RowB["rh_r"]]

\* RowA with one cell empty (NaN) or holding text, or with P_atm = 0
BadRows ==
    {[RowA EXCEPT ![c] = d] : c \in InputCols, d \in {NaN, Txt}}
    \cup {[RowA EXCEPT !["P_atm"] = Num(0)]}

SeqsUpTo(S, m) == UNION {[1..l -> S] : l \in 0..m}
Count(t, S) == Cardinality({j \in 1..Len(t) : t[j] \in S})

CleanTables == SeqsUpTo({RowA, RowB}, MaxRows)
\* tables with integer gsw cells
IntTables == {t \in SeqsUpTo({RowA, RowI}, MaxRows) : Count(t, {RowI}) >= 1}
\* exactly one bad row among rows like RowA
BadTables == {t \in SeqsUpTo({RowA} \cup BadRows, MaxRows) : Count(t, BadRows) = 1}

\* RowZ alone, and RowZ followed by a row whose Tleaf cell holds text
RestTables == {<<RowZ>>, <<RowZ, [RowZ EXCEPT !["Tleaf"] = Txt]>>}

Restrict(row, cols) == [c \in cols |-> row[c]]
\* a table exported without one of the columns
WithoutColumn(t, c) == [j \in 1..Len(t) |-> Restrict(t[j], InputCols \ {c})]

Li600Files == {Li600File(InputCols, t) : t \in CleanTables \cup IntTables \cup BadTables}
OtherFiles ==
    {PlainFile(InputCols, t) : t \in CleanTables}
    \cup {Pre2File(InputCols, t) : t \in CleanTables}
    \cup {Li600File(InputCols \ {c}, WithoutColumn(t, c)) :
            c \in InputCols, t \in SeqsUpTo({RowA}, MaxRows)}
Files == Li600Files \cup OtherFiles

\* the end-to-end scenario: the same measurement in every row, in a file
\* with the E_apparent column and in a file with the named columns only
ScenarioTable == [j \in 1..ScenarioRows |-> RowA]
ScenarioFiles ==
    {PlainFile(InputCols, ScenarioTable),
     PlainFile(Required, WithoutColumn(ScenarioTable, "E_apparent"))}

DefaultConfig == [sidedness |-> [kind |-> "int", v |-> DefaultSidedness], C |-> DefaultC]
\* the calls of the tests (sidedness 1.0, C 0.01), an amphistomatous leaf,
\* and arguments outside the documented ranges
TestConfig == [sidedness |-> [kind |-> "float", v |-> 10], C |-> 10]
NoConduction == [sidedness |-> [kind |-> "float", v |-> 10], C |-> 0]
\* the thermal_conductance values the tests compare: 0.005, 0.007, 0.01
SweepC == {5, DefaultC, 10}
SweepConfigs == {[sidedness |-> [kind |-> "float", v |-> 10], C |-> c] : c \in SweepC}
\* stomatal_sidedness 1.0 and thermal_conductance 0.007
ScenarioConfig == [sidedness |-> [kind |-> "float", v |-> 10], C |-> DefaultC]
Configs ==
    SweepConfigs \cup
    {DefaultConfig, TestConfig,
     [sidedness |-> [kind |-> "float", v |-> 20], C |-> DefaultC],
     [sidedness |-> [kind |-> "int", v |-> 30], C |-> DefaultC],
     NoConduction}

\* the calls drawn: every file with the defaults, the LI-600 exports with
\* the arguments of the tests, the clean exports with every configuration,
\* the chamber at rest with thermal_conductance = 0, the scenario, the
\* measurement without exchange
Calls ==
    (Files \X {DefaultConfig})
    \cup (Li600Files \X {TestConfig})
    \cup ({Li600File(InputCols, t) : t \in CleanTables} \X Configs)
    \cup ({Li600File(InputCols, t) : t \in RestTables} \X {NoConduction})
    \cup (ScenarioFiles \X {ScenarioConfig})
    \cup ({Li600File(InputCols, <<RowE>>)} \X {ScenarioConfig})

ValidConfig(cfg) ==
    cfg.sidedness.v >= 10 /\ cfg.sidedness.v <= 20 /\ cfg.C > 0

NoPrev == [file |-> <<>>, config |-> DefaultConfig, table |-> NoTable,
           branch |-> <<>>]

\* ------------------------------------------------------------------- Init
Init ==
    /\ \E call \in Calls :
          /\ file = call[1]
          /\ config = call[2]
    /\ pc = "call"
    /\ data = NoTable
    /\ i = 1
    /\ cur = NoInputs
    /\ ret = Raises
    /\ sol = Zero3
    /\ arrays = InitArrays(NoTable, DefaultConfig.sidedness)
    /\ disk = <<>>
    /\ returned = NoTable
    /\ raised = "none"
    /\ fsolveMemo = {}
    /\ rowState = <<>>
    /\ solveCount = <<>>
    /\ branch = <<>>
    /\ run = 1
    /\ prev = NoPrev

n == Len(data.rows)

NoBranch == [taken |-> "none", raise |-> FALSE, ssq |-> NaN, x |-> NaN3]

Raise(e) ==
    /\ pc' = "raised"
    /\ raised' = e

\* lines 28-52: ingestion and the result arrays
Call ==
    /\ pc = "call"
    /\ LET r == ReadInput(file)
           e == IF r.err # "none" THEN r.err
                ELSE InitArraysError(r.table, config.sidedness)
       IN IF e # "none"
          THEN /\ Raise(e)
               /\ UNCHANGED <<data, arrays, rowState, solveCount, branch>>
          ELSE /\ data' = r.table
               /\ arrays' = InitArrays(r.table, config.sidedness)
               /\ rowState' = [j \in 1..Len(r.table.rows) |-> "Pending"]
               /\ solveCount' = [j \in 1..Len(r.table.rows) |-> 0]
               /\ branch' = [j \in 1..Len(r.table.rows) |-> NoBranch]
               /\ pc' = "loop"
               /\ UNCHANGED raised
    /\ i' = 1
    /\ UNCHANGED <<file, config, cur, ret, sol, disk, returned, fsolveMemo, run, prev>>

\* lines 85-101: the inputs and the initial guess of row i
RowBegin ==
    /\ pc = "loop"
    /\ i <= n
    /\ LET e == RowInputsError(data, i)
       IN IF e # "none"
          THEN /\ Raise(e)
               /\ UNCHANGED <<cur, rowState>>
          ELSE /\ cur' = RowInputs(data, i)
               /\ rowState' = [rowState EXCEPT ![i] = "Initialized"]
               /\ pc' = "solve"
               /\ UNCHANGED raised
    /\ UNCHANGED <<file, config, data, i, ret, sol, arrays, disk, returned,
                   fsolveMemo, solveCount, branch, run, prev>>

\* a faulty variant: the argument is ignored, C is always 0.007
SolveKeyDefaultC == [in |-> cur, C |-> DefaultC]

\* line 58, C = thermal_conductance, and the row's closure values
SolveKey == [in |-> cur, C |-> config.C]

\* line 136: the call of fsolve.  The same inputs give the same result, in
\* this call and in later ones.
SolveCall ==
    /\ pc = "solve"
    /\ \E o \in IF \E e \in fsolveMemo : e.key = SolveKey
                THEN {e.out : e \in {m \in fsolveMemo : m.key = SolveKey}}
                ELSE FsolveOutcomes(SolveKey.in, SolveKey.C) :
          /\ ret' = o
          /\ fsolveMemo' = fsolveMemo \cup {[key |-> SolveKey, out |-> o]}
    /\ rowState' = [rowState EXCEPT ![i] = "Solving"]
    /\ solveCount' = [solveCount EXCEPT ![i] = @ + 1]
    /\ pc' = "check"
    /\ UNCHANGED <<file, config, data, i, cur, sol, arrays, disk, returned,
                   raised, branch, run, prev>>

\* lines 137-150: the convergence check and the bare except
SolveReturn ==
    /\ pc = "check"
    /\ sol' = Accept(ret)
    /\ branch' = [branch EXCEPT ![i] =
                    [taken |-> IF FellBack(ret) THEN "Fallback" ELSE "Converged",
                     raise |-> ret.raise, ssq |-> ret.ssq, x |-> ret.x]]
    /\ rowState' = [rowState EXCEPT ![i] = IF FellBack(ret) THEN "Fallback" ELSE "Converged"]
    /\ pc' = "store"
    /\ UNCHANGED <<file, config, data, i, cur, ret, arrays, disk, returned,
                   raised, fsolveMemo, solveCount, run, prev>>

\* a faulty variant: the loop steps over every other row
SkipARow(j) == j + 2

\* line 85: `for i in range(n)`
NextIndex(j) == j + 1

\* lines 152-163: the row's results go into the arrays
RowStore ==
    /\ pc = "store"
    /\ LET e == StoreError(data, config.sidedness, cur, sol)
       IN IF e # "none"
          THEN /\ Raise(e)
               /\ UNCHANGED <<arrays, rowState, i>>
          ELSE /\ arrays' = StoreRow(arrays, i, data, config.sidedness, cur, sol)
               /\ rowState' = [rowState EXCEPT ![i] = "Finalized"]
               /\ i' = NextIndex(i)
               /\ pc' = "loop"
               /\ UNCHANGED raised
    /\ UNCHANGED <<file, config, data, cur, ret, sol, disk, returned,
                   fsolveMemo, solveCount, branch, run, prev>>

\* lines 165-181: the columns are added, the file is written, the table is
\* returned
Finish ==
    /\ pc = "loop"
    /\ i > n
    /\ LET out == AddColumns(data, arrays, config.sidedness)
       IN /\ returned' = out
          /\ disk' = ToCsv(out)
    /\ pc' = "done"
    /\ UNCHANGED <<file, config, data, i, cur, ret, sol, arrays, raised,
                   fsolveMemo, rowState, solveCount, branch, run, prev>>

\* the caller calls again, on file f with the arguments cfg: the state of
\* the finished call is gone, only the files stay
Restart(f, cfg) ==
    /\ pc = "done"
    /\ run < MaxRuns
    /\ prev' = [file |-> file, config |-> config, table |-> returned,
                branch |-> branch]
    /\ file' = f
    /\ config' = cfg
    /\ run' = run + 1
    /\ pc' = "call"
    /\ data' = NoTable
    /\ i' = 1
    /\ cur' = NoInputs
    /\ ret' = Raises
    /\ sol' = Zero3
    /\ arrays' = InitArrays(NoTable, DefaultConfig.sidedness)
    /\ disk' = <<>>
    /\ returned' = NoTable
    /\ rowState' = <<>>
    /\ solveCount' = <<>>
    /\ branch' = <<>>
    /\ UNCHANGED <<raised, fsolveMemo>>

CallAgain(f) == Restart(f, config)

\* main.py run a second time on the same file
RunAgain == CallAgain(file)
\* the corrector run on the file it wrote
RunOnCorrected == CallAgain(disk)
\* the same file with its last measurement removed
RunWithoutLastRow ==
    /\ Len(file) > 0
    /\ file[Len(file)].kind = "data"
    /\ CallAgain(SubSeq(file, 1, Len(file) - 1))

\* the stomatal_sidedness values of a second call: 1.5 and 2.0, and the
\* int 2
OtherSidedness ==
    {[kind |-> "float", v |-> 15], [kind |-> "float", v |-> 20],
     [kind |-> "int", v |-> 20]}

\* the same file, or the corrected file, corrected again with another
\* stomatal_sidedness, after a call with stomatal_sidedness = 1
RunWithSidedness ==
    /\ config.sidedness.v = 10
    /\ \E k \in OtherSidedness, f \in {file, disk} :
          Restart(f, [config EXCEPT !.sidedness = k])

\* the tests' second and third calls: the same file and sidedness with
\* another thermal_conductance
RunWithConductance ==
    /\ config.C \in SweepC
    /\ \E c \in SweepC \ {config.C} : Restart(file, [config EXCEPT !.C = c])

Next ==
    \/ Call
    \/ RowBegin
    \/ SolveCall
    \/ SolveReturn
    \/ RowStore
    \/ Finish
    \/ RunAgain
    \/ RunOnCorrected
    \/ RunWithoutLastRow
    \/ RunWithSidedness
    \/ RunWithConductance

Spec == Init /\ [][Next]_vars

\* =================================================================== claims
Rows == 1..Len(branch)

\* the three solved values of row j as the arrays and the table hold them
ZeroStored(j) ==
    /\ arrays.T_outs[j] = Num(0)
    /\ arrays.gsw_bottom[j] = Num(0)
    /\ IsFinite(arrays.gsw_total[j]) /\ arrays.gsw_total[j].v = 0

ZeroWritten(row) ==
    /\ row["T_out_corrected"] = Num(0)
    /\ IsFinite(row["gsw_corrected"]) /\ row["gsw_corrected"].v = 0

AllFinalized == \A j \in 1..Len(rowState) : rowState[j] = "Finalized"

\* C1 as stated: when fsolve raises for a row, the function does not raise
\* to its caller while processing that row, the row's T_out, E and gsw are
\* exactly 0, and the rows after it are processed.
C1_AsStated ==
    /\ \A j \in Rows : branch[j].raise =>
          /\ (j = i /\ pc = "store" => sol = Zero3)
          /\ (rowState[j] = "Finalized" => ZeroStored(j))
          /\ (pc = "done" => ZeroWritten(returned.rows[j]))
    /\ (pc = "raised" => ~(i \in Rows /\ branch[i].raise))
    /\ (pc = "done" => AllFinalized)

\* C1 amended: when fsolve raises for a row, the exception is caught and
\* the row's T_out, E and gsw are exactly 0 (T_out_corrected = 0 and
\* gsw_corrected = 0); the row is stored and the rows after it are
\* processed, unless P_atm is not numeric: then line 163 raises TypeError
\* to the caller for that row.
C1_SolverExceptionFallsBack ==
    /\ \A j \in Rows : branch[j].raise =>
          /\ branch[j].taken = "Fallback"
          /\ (j = i /\ pc = "store" => sol = Zero3)
          /\ (rowState[j] = "Finalized" => ZeroStored(j))
          /\ (j < i => rowState[j] = "Finalized")
          /\ (pc = "done" => ZeroWritten(returned.rows[j]))
    /\ (pc = "raised" /\ i \in Rows /\ branch[i].raise
          => IsStr(cur.P_atm) /\ raised = "TypeError")
    /\ (pc = "done" => AllFinalized)

\* a two-row run in which fsolve raised for the first row, which was
\* written as zeros, and the second row was processed as well
C1_Witness ==
    /\ pc = "done"
    /\ Len(branch) = 2
    /\ branch[1].raise
    /\ ZeroWritten(returned.rows[1])
    /\ rowState[2] = "Finalized"

\* C2 as stated: a row whose residual vector is NaN or otherwise not
\* finite takes the fallback: its T_out_corrected and gsw_corrected are
\* exactly 0, never NaN or infinite.
C2_AsStated ==
    \A j \in Rows :
        (rowState[j] = "Finalized" /\ ~branch[j].raise /\ ~IsFinite(branch[j].ssq))
        => /\ branch[j].taken = "Fallback"
           /\ ZeroStored(j)

\* C3 as stated: a result is accepted only when the sum of squared
\* residuals is strictly below 1e-10, and every finite sum at or above
\* 1e-10 gives zeros.
C3_AsStated ==
    \A j \in Rows :
        (branch[j].taken # "none" /\ ~branch[j].raise)
        => /\ (branch[j].taken = "Converged"
                 => IsFinite(branch[j].ssq) /\ branch[j].ssq.v < Tol)
           /\ (IsFinite(branch[j].ssq) /\ branch[j].ssq.v >= Tol
                 => /\ branch[j].taken = "Fallback"
                    /\ (rowState[j] = "Finalized" => ZeroStored(j)))

\* what fsolve returned for the inputs of row j of the ingested table
SolvedFor(j) ==
    LET key == [in |-> RowInputs(data, j), C |-> config.C]
    IN (CHOOSE e \in fsolveMemo : e.key = key).out

\* the corrected values the code derives from input row j alone
CorrectedFrom(j) ==
    LET in == RowInputs(data, j)
        s == Accept(SolvedFor(j))
        prod == FTimesTenths(s[3], config.sidedness.v)
        T_chamb == FHalf(FAdd(in.T_in, s[1]))
    IN [gsw_corrected      |-> IF GswTotalIsInt(data, config.sidedness)
                               THEN IntLit(TruncInt(prod.v)) ELSE prod,
        T_in_corrected     |-> FAdd(in.T_in, Num(0)),
        Ta_chamb_corrected |-> T_chamb,
        T_out_corrected    |-> s[1],
        W_chamb_corrected  |-> W(T_chamb, FAdd(in.RH_in, in.RH_out), in.P_atm)]

DataLineCount(lines) == Cardinality({m \in 1..Len(lines) : lines[m].kind = "data"})

\* C4: when the run completes on an ingested table of n rows, the returned
\* table and the written file have exactly n rows, and output row j holds
\* the input cells of row j and the corrected values computed from row j,
\* whether the row converged or fell back.
C4_RowsKeptInOrder ==
    pc = "done" =>
        /\ Len(returned.rows) = Len(data.rows)
        /\ DataLineCount(disk) = Len(data.rows)
        /\ \A j \in 1..Len(data.rows) :
              /\ \A c \in data.cols \ CorrectedCols :
                    returned.rows[j][c] = data.rows[j][c]
              /\ \A c \in DOMAIN CorrectedFrom(j) :
                    returned.rows[j][c] = CorrectedFrom(j)[c]
              /\ disk[j + 1].row = [c \in returned.cols |-> WriteCell(returned.rows[j][c])]

\* a completed two-row run whose rows differ, one converged and one fell back
C4_Witness ==
    /\ pc = "done"
    /\ Len(data.rows) = 2
    /\ data.rows[1] # data.rows[2]
    /\ branch[1].taken = "Converged"
    /\ branch[2].taken = "Fallback"
    /\ returned.rows[1]["T_out_corrected"] # returned.rows[2]["T_out_corrected"]

\* a table was ingested by the current call
Ingested == data.cols # {}

\* a required column is missing from the table or holds a value that is
\* not numeric
BadRequiredColumn(table) ==
    \E c \in Required :
        \/ c \notin table.cols
        \/ \E j \in 1..Len(table.rows) : IsStr(table.rows[j][c])

NoOutput == pc # "done" /\ disk = <<>> /\ returned = NoTable

\* C5 as stated: with a required column missing or not numeric the run
\* fails: nothing is returned and no file is written.
C5_AsStated ==
    (Ingested /\ BadRequiredColumn(data)) => NoOutput

\* C6 as stated: a table with every required column but no E_apparent
\* column is solved row by row instead of failing the run.
C6_AsStated ==
    (Ingested /\ ~BadRequiredColumn(data) /\ "E_apparent" \notin data.cols)
    => /\ pc # "raised"
       /\ (pc = "done" => \A j \in Rows : solveCount[j] = 1)

\* C7 as stated: with stomatal_sidedness outside [1, 2] or
\* thermal_conductance not above 0, no row is solved and no output is
\* produced.
C7_AsStated ==
    ~ValidConfig(config)
    => /\ \A j \in Rows : rowState[j] = "Pending"
       /\ NoOutput

\* a row as to_csv writes it
Written(row) == [c \in DOMAIN row |-> WriteCell(row[c])]

\* C8 as stated: the output tells the fallback rows from the converged
\* rows: two output rows that are written alike, in this call's output or
\* the previous call's, took the same branch.
C8_AsStated ==
    pc = "done" =>
        \A j \in 1..Len(returned.rows) :
            /\ \A m \in 1..Len(returned.rows) :
                  Written(returned.rows[j]) = Written(returned.rows[m])
                  => branch[j].taken = branch[m].taken
            /\ \A m \in 1..Len(prev.table.rows) :
                  Written(returned.rows[j]) = Written(prev.table.rows[m])
                  => branch[j].taken = prev.branch[m].taken

\* the lifecycle of one row
Lifecycle ==
    {<<"Pending", "Initialized">>, <<"Initialized", "Solving">>,
     <<"Solving", "Converged">>, <<"Solving", "Fallback">>,
     <<"Converged", "Finalized">>, <<"Fallback", "Finalized">>}

\* the results stored for row j
Stored(arr, j) ==
    <<arr.gsw_bottom[j], arr.gsw_total[j], arr.T_outs[j], arr.T_chambs[j],
      arr.T_ins[j], arr.W_chambs[j]>>

\* rows are visited once, in index order: the rows before the loop index
\* are finalized, the rows after it are untouched, no row is solved twice
VisitedInOrder ==
    \A j \in 1..Len(rowState) :
        /\ solveCount[j] <= 1
        /\ (j < i => rowState[j] = "Finalized")
        /\ (j > i => rowState[j] = "Pending")
        /\ (rowState[j] \in {"Pending", "Initialized"} => solveCount[j] = 0)
        /\ (rowState[j] \in {"Solving", "Converged", "Fallback", "Finalized"}
              => solveCount[j] = 1)
        /\ (rowState[j] = "Converged" => branch[j].taken = "Converged")
        /\ (rowState[j] = "Fallback" => branch[j].taken = "Fallback")

\* within a call a row only moves along the lifecycle, and a finalized row
\* is not solved again and its results do not change
RowSteps ==
    (run' = run /\ Len(rowState) > 0) =>
        \A j \in 1..Len(rowState) :
            /\ rowState'[j] = rowState[j] \/ <<rowState[j], rowState'[j]>> \in Lifecycle
            /\ rowState[j] = "Finalized" =>
                  /\ solveCount'[j] = solveCount[j]
                  /\ branch'[j] = branch[j]
                  /\ Stored(arrays', j) = Stored(arrays, j)

OutputAfterAllRows ==
    pc = "done" =>
        /\ AllFinalized
        /\ Len(returned.rows) = Len(rowState)

\* how far the call has come: the loop index, then the statement within
\* the iteration; a call that has ended is past every row
Position ==
    IF pc \in {"done", "raised"} THEN 5 * (Len(rowState) + 2)
    ELSE 5 * i + (CASE pc = "call"  -> 0
                    [] pc = "loop"  -> 1
                    [] pc = "solve" -> 2
                    [] pc = "check" -> 3
                    [] pc = "store" -> 4)

\* every step of a call moves it forward, so a call over n rows ends
\* within 5 * (n + 2) steps
Advances == run' = run => Position' > Position

CallEnded == pc \in {"done", "raised"}

\* C9 as stated: each row is visited once in index order and goes
\* Initialized, Solving, Converged or Fallback, Finalized; a finalized row
\* is never solved again or changed; and a run over an ingested table
\* always goes on to finalize all its rows and produce the output table:
\* it never ends otherwise.
C9_AsStated ==
    /\ [](VisitedInOrder /\ OutputAfterAllRows)
    /\ [][RowSteps /\ Advances]_vars
    /\ []((CallEnded /\ Ingested) => (pc = "done" /\ AllFinalized))

\* C9 amended: the same lifecycle, order and immutability; a run over an
\* ingested table ends either with all its rows finalized and then the
\* output table produced, or with an exception raised while a row is
\* prepared (lines 87-100) or stored (lines 154, 163), which leaves that
\* row and the rows after it unfinalized and no output.
C9_RowLifecycle ==
    /\ [](VisitedInOrder /\ OutputAfterAllRows)
    /\ [][RowSteps /\ Advances]_vars
    /\ []((CallEnded /\ Ingested) =>
            \/ pc = "done" /\ AllFinalized
            \/ /\ pc = "raised"
               /\ i \in 1..Len(rowState)
               /\ rowState[i] \in {"Pending", "Converged", "Fallback"}
               /\ \A j \in 1..Len(rowState) : j > i => rowState[j] = "Pending"
               /\ NoOutput)

\* a completed two-row run: each row solved once, the first converged, the
\* second fell back, both finalized
C9_Witness ==
    /\ pc = "done"
    /\ Len(rowState) = 2
    /\ AllFinalized
    /\ solveCount = <<1, 1>>
    /\ branch[1].taken = "Converged"
    /\ branch[2].taken = "Fallback"

\* the input cells of two rows are the same in the file
SameInputs(r1, r2) ==
    /\ InputCols \subseteq DOMAIN r1
    /\ InputCols \subseteq DOMAIN r2
    /\ \A c \in InputCols : WriteCell(r1[c]) = WriteCell(r2[c])

SameCorrected(r1, r2) ==
    \A c \in CorrectedCols : WriteCell(r1[c]) = WriteCell(r2[c])

\* C10 as stated: two rows with the same input cells, in the table of this
\* call or in the table of the call before it (made with the same
\* configuration), have the same corrected columns.
C10_AsStated ==
    pc = "done" =>
        \A j \in 1..Len(returned.rows) :
            /\ \A m \in 1..Len(returned.rows) :
                  SameInputs(returned.rows[j], returned.rows[m])
                  => SameCorrected(returned.rows[j], returned.rows[m])
            /\ \A m \in 1..Len(prev.table.rows) :
                  (prev.config = config
                     /\ SameInputs(returned.rows[j], prev.table.rows[m]))
                  => SameCorrected(returned.rows[j], prev.table.rows[m])

\* a = (k / 10) * b on floats; NaN on both sides counts as agreeing
ScaledBy(a, b, k) ==
    \/ IsNaN(a) /\ IsNaN(b)
    \/ a.k = "inf" /\ b.k = "inf"
    \/ IsFinite(a) /\ IsFinite(b) /\ 10 * a.v = k * b.v

\* this call and the one before it were made on the same file with the
\* same thermal_conductance, the one before with stomatal_sidedness = 1
RescaledCall ==
    /\ pc = "done"
    /\ prev.table # NoTable
    /\ prev.file = file
    /\ prev.config.C = config.C
    /\ prev.config.sidedness.v = 10

\* C11 as stated: gsw_corrected computed with stomatal_sidedness = k is k
\* times gsw_corrected computed with stomatal_sidedness = 1, row by row,
\* and the stomatal_sidedness column holds k in every row.
C11_AsStated ==
    RescaledCall =>
        \A j \in 1..Len(returned.rows) :
            /\ ScaledBy(returned.rows[j]["gsw_corrected"],
                        prev.table.rows[j]["gsw_corrected"],
                        config.sidedness.v)
            /\ returned.rows[j]["stomatal_sidedness"].v = config.sidedness.v

\* C12 as stated: every column of the ingested table is in the output with
\* its values unchanged in every row, and the columns of the output are
\* those and the six corrected columns.
C12_AsStated ==
    pc = "done" =>
        /\ returned.cols = data.cols \cup CorrectedCols
        /\ Len(returned.rows) = Len(data.rows)
        /\ \A j \in 1..Len(data.rows) : \A c \in data.cols :
              returned.rows[j][c] = data.rows[j][c]

\* C12 amended: every column of the ingested table that is not named like
\* one of the six corrected columns is in the output with its values
\* unchanged in every row, in the returned table and in the written file;
\* the six corrected columns are added, or written over when the input
\* already has columns of these names.
C12_InputColumnsKept ==
    pc = "done" =>
        /\ returned.cols = data.cols \cup CorrectedCols
        /\ disk[1].cols = returned.cols
        /\ Len(returned.rows) = Len(data.rows)
        /\ \A j \in 1..Len(data.rows) :
              \A c \in data.cols \ CorrectedCols :
                  /\ returned.rows[j][c] = data.rows[j][c]
                  /\ disk[j + 1].row[c] = WriteCell(data.rows[j][c])

\* a completed two-row run on an export that has none of the six columns
C12_Witness ==
    /\ pc = "done"
    /\ Len(data.rows) = 2
    /\ data.cols = InputCols
    /\ returned.cols = InputCols \cup CorrectedCols
    /\ \A j \in 1..2 : returned.rows[j]["gsw"] = data.rows[j]["gsw"]

\* C13 as stated: on every file the GUI's function and the script's
\* function both fail or both return the same rows: when the script's call
\* has ingested a table the GUI ingests the same table, from which the
\* same loop computes the same six columns, and when the script's call
\* failed at ingestion so does the GUI's.
C13_AsStated ==
    /\ (Ingested => /\ ReadInputGui(file).err = "none"
                    /\ ReadInputGui(file).table = data)
    /\ (pc = "raised" /\ ~Ingested => ReadInputGui(file).err # "none")

\* two cells hold the same number (an int64 25 and a float64 25.0 do)
SameNumber(a, b) ==
    \/ IsFinite(a) /\ IsFinite(b) /\ a.v = b.v
    \/ ~IsFinite(a) /\ a = b

\* C19: in every output row, converged or fallback, T_in_corrected is the
\* row's Tref, Ta_chamb_corrected is 0.5 * (Tref + T_out_corrected), and
\* W_chamb_corrected is W at Ta_chamb_corrected, the mean of rh_r and rh_s,
\* and the row's P_atm; a fallback row has Ta_chamb_corrected = Tref / 2.
C19_PostSolveDerivation ==
    pc = "done" =>
        \A j \in 1..Len(returned.rows) :
            LET r == returned.rows[j]
                d == data.rows[j]
            IN /\ SameNumber(r["T_in_corrected"], d["Tref"])
               /\ r["Ta_chamb_corrected"] = FHalf(FAdd(d["Tref"], r["T_out_corrected"]))
               /\ r["W_chamb_corrected"] =
                     W(r["Ta_chamb_corrected"], FAdd(d["rh_r"], d["rh_s"]), d["P_atm"])
               /\ (branch[j].taken = "Fallback" =>
                     /\ r["T_out_corrected"] = Num(0)
                     /\ SameNumber(FAdd(r["Ta_chamb_corrected"], r["Ta_chamb_corrected"]),
                                   d["Tref"]))

\* a completed run with a converged row and a fallback row whose leaf and
\* reference temperatures differ
C19_Witness ==
    /\ pc = "done"
    /\ Len(returned.rows) = 2
    /\ branch[1].taken = "Converged"
    /\ branch[2].taken = "Fallback"
    /\ data.rows[2]["Tref"] # data.rows[2]["Tleaf"]
    /\ returned.rows[2]["Ta_chamb_corrected"].v * 2 = data.rows[2]["Tref"].v

\* layout `skip` parses the file into a table with a 'gsw' column
Yields(lines, skip) ==
    ReadCsv(lines, skip).err = "none" /\ "gsw" \in ReadCsv(lines, skip).cols

TableOf(lines, skip) ==
    [cols |-> ReadCsv(lines, skip).cols, rows |-> ReadCsv(lines, skip).rows]

\* the call ingested table t (line 52 may still raise on it afterwards)
IngestedAs(t) == data = t \/ (pc = "raised" /\ raised = "TypeError")

\* C20 as stated: the table ingested is that of the first of the three
\* layouts (skip lines 0 and 2, skip the first two lines, skip nothing)
\* that yields a 'gsw' column, and the call fails at ingestion only when
\* none of the three does.
C20_AsStated ==
    pc # "call" =>
        IF Yields(file, SkipGroupsAndUnits)
        THEN IngestedAs(TableOf(file, SkipGroupsAndUnits))
        ELSE IF Yields(file, SkipFirstTwo)
        THEN IngestedAs(TableOf(file, SkipFirstTwo))
        ELSE IF Yields(file, SkipNothing)
        THEN IngestedAs(TableOf(file, SkipNothing))
        ELSE pc = "raised" /\ ~Ingested

\* ---- thermal conductance
\* a row whose solve converged: the sum of squares passed the check as a
\* number
Solved(b) == b.taken = "Converged" /\ IsFinite(b.ssq)

\* the finished call corrected the file of the call before it, with the
\* same stomatal_sidedness
SameFileAgain ==
    /\ pc = "done"
    /\ run > 1
    /\ prev.file = file
    /\ prev.config.sidedness = config.sidedness
    /\ Len(prev.branch) = Len(branch)

SolvedInBoth(j) == Solved(branch[j]) /\ Solved(prev.branch[j])

Abs(v) == IF v >= 0 THEN v ELSE 0 - v
\* |Tref - Ta_chamb_corrected| of an output row
ChamberDistance(row) == Abs(row["Tref"].v - row["Ta_chamb_corrected"].v)

\* C14: when the same file is corrected with two values of
\* thermal_conductance, every row that converges in both calls has its
\* Ta_chamb_corrected at least as close to Tref in the call with the higher
\* thermal_conductance
C14_CloserWithHigherC ==
    SameFileAgain =>
        \A j \in Rows : SolvedInBoth(j) =>
            /\ (config.C > prev.config.C =>
                  ChamberDistance(returned.rows[j]) <= ChamberDistance(prev.table.rows[j]))
            /\ (config.C < prev.config.C =>
                  ChamberDistance(returned.rows[j]) >= ChamberDistance(prev.table.rows[j]))

\* a file corrected with C = 0.007 and then with C = 0.01, with a row that
\* converged in both calls and came closer to Tref
C14_Witness ==
    /\ SameFileAgain
    /\ prev.config.C = DefaultC
    /\ config.C > DefaultC
    /\ \E j \in Rows :
          /\ SolvedInBoth(j)
          /\ ChamberDistance(returned.rows[j]) < ChamberDistance(prev.table.rows[j])

RECURSIVE SumCorrected(_, _)
\* the sum of gsw_corrected over the first j rows of an output table
SumCorrected(table, j) ==
    IF j = 0 THEN 0 ELSE table.rows[j]["gsw_corrected"].v + SumCorrected(table, j - 1)

\* two calls on one file with stomatal_sidedness = 1.0 in which every row
\* converged
SweepConverged ==
    /\ SameFileAgain
    /\ config.sidedness = [kind |-> "float", v |-> 10]
    /\ Len(branch) >= 1
    /\ \A j \in Rows : SolvedInBoth(j)

Exchanges(j) ==
    LET in == RowInputs(data, j)
        p == RootParts(in, config.C)
        q == RootParts(in, prev.config.C)
    IN /\ config.C > 0 /\ prev.config.C > 0
       /\ p.E # 0
       /\ ((p.den > 0 /\ q.den > 0) \/ (p.den < 0 /\ q.den < 0))

Min(x, y) == IF x <= y THEN x ELSE y
Max(x, y) == IF x >= y THEN x ELSE y

\* a valid observation: every input a number, the humidities within 0..100 %,
\* P_atm and flow above 0, gsw not below 0
ValidObservation(row) ==
    /\ \A c \in InputCols : IsFinite(row[c])
    /\ \A c \in {"rh_r", "rh_s"} : row[c].v >= 0 /\ row[c].v <= 100
    /\ row["P_atm"].v > 0
    /\ row["flow"].v > 0
    /\ row["gsw"].v >= 0

\* the value of a W_chamb_corrected cell, in parts per million
ChamberW(w) == WValue(w.T.v, w.RH2.v, w.P.v)

\* C16 as stated: in a finished call with arguments in the documented
\* ranges, every converged row of a valid observation has Ta_chamb_corrected
\* between min(Tref, Tleaf) and max(Tref, Tleaf) and W_chamb_corrected
\* strictly between 0 and 1
C16_AsStated ==
    pc = "done" /\ ValidConfig(config) =>
        \A j \in Rows : Solved(branch[j]) /\ ValidObservation(data.rows[j]) =>
            LET row == returned.rows[j]
                Ta == row["Ta_chamb_corrected"]
            IN /\ IsFinite(Ta)
               /\ IsFinite(row["T_out_corrected"])
               /\ Ta.v >= Min(row["Tref"].v, row["Tleaf"].v)
               /\ Ta.v <= Max(row["Tref"].v, row["Tleaf"].v)
               /\ ChamberW(row["W_chamb_corrected"]) > 0
               /\ ChamberW(row["W_chamb_corrected"]) < 1000000

\* ---- the end-to-end scenario
\* C17 as stated: the first call on a scenario file with sidedness 1.0 and
\* thermal_conductance 0.007 does not raise, and when it has finished
\* gsw_corrected is one value in all its rows, below the uncorrected gsw
C17_AsStated ==
    file \in ScenarioFiles /\ config = ScenarioConfig /\ run = 1 =>
        /\ pc # "raised"
        /\ pc = "done" =>
              /\ Len(returned.rows) = ScenarioRows
              /\ \A j \in 1..ScenarioRows :
                    /\ IsFinite(returned.rows[j]["gsw_corrected"])
                    /\ returned.rows[j]["gsw_corrected"] = returned.rows[1]["gsw_corrected"]
                    /\ returned.rows[j]["gsw_corrected"].v < returned.rows[j]["gsw"].v

\* ---- the thermal_conductance argument
\* the calls of test_custom_C.py: the default 0.007 and 0.01, in either
\* order, on one file
DefaultAndCustom ==
    /\ SameFileAgain
    /\ {config.C, prev.config.C} = {DefaultC, 10}

\* C18 as stated: when every row converged in both calls, gsw_corrected
\* differs between them in some row
C18_AsStated ==
    DefaultAndCustom /\ Len(branch) >= 1 /\ (\A j \in Rows : SolvedInBoth(j)) =>
        \E j \in Rows :
            returned.rows[j]["gsw_corrected"] # prev.table.rows[j]["gsw_corrected"]

\* E # 0 at the root of row j: rh_s # rh_r and flow # 0
Transpires(j) == E_root(RowInputs(data, j)) # 0

\* C18 (amended): every converged row holds the root of the equations for
\* the thermal_conductance of the call, and between the calls with 0.007
\* and 0.01 gsw_corrected differs in every row that converged in both with
\* E # 0, where gsw_total is a float array
C18_ConductanceUsed ==
    /\ pc = "done" /\ config.C > 0 =>
          \A j \in Rows : Solved(branch[j]) =>
              branch[j].x = Root(RowInputs(data, j), config.C)
    /\ DefaultAndCustom /\ ~GswTotalIsInt(data, config.sidedness) =>
          \A j \in Rows : SolvedInBoth(j) /\ Transpires(j) =>
              returned.rows[j]["gsw_corrected"] # prev.table.rows[j]["gsw_corrected"]

\* the default call and then the call with 0.01, with a row that converged
\* in both, exchanges water vapour and has two values of gsw_corrected
C18_Witness ==
    /\ DefaultAndCustom
    /\ prev.config = DefaultConfig
    /\ \E j \in Rows :
          /\ SolvedInBoth(j)
          /\ Transpires(j)
          /\ branch[j].x = Root(RowInputs(data, j), 10)
          /\ returned.rows[j]["gsw_corrected"] # prev.table.rows[j]["gsw_corrected"]
====
